---- MODULE Spec2Model ----
(***************************************************************************)
(* Model of newsletter.py: the NewsletterGenerator class (field extractor, *)
(* topic classifier, run orchestrator) and the command-line entry point.   *)
(*                                                                         *)
(* Text is a sequence of characters.  The characters that the patterns of  *)
(* extract_paper_info tell apart are written as tokens:                    *)
(*   "biao" "ti"   U+6807 U+9898, the two characters of the title marker   *)
(*   "zhai" "yao"  U+6458 U+8981, the two characters of the summary marker *)
(*   ":"           the ASCII colon                                         *)
(*   "fw"          U+FF1A, the full-width colon                            *)
(*   "\n"          the newline                                             *)
(*   " "           a whitespace character other than the newline           *)
(* Every other string of length one is an ordinary character.              *)
(***************************************************************************)
EXTENDS Integers, Sequences, FiniteSets, TLC

VARIABLES
    paper_data,     \* extract_paper_info: its argument
    info,           \* extract_paper_info: the dict it returns
    epc,            \* extract_paper_info: "call" before, "return" after
    hot_papers,     \* get_hot_topics: its argument
    hot_topics,     \* get_hot_topics: the string it returns
    tpc,            \* get_hot_topics: "call" before, "return" after
    pc,             \* the process: the step of __main__ / generate_newsletter
    args_date,      \* args.date: None or a date
    date_str,       \* generate_newsletter: date_str
    input_file,     \* HF-day-paper-deepseek/{date}_HF_deepseek_clean.json
    stats_file,     \* whether stats/stats_report.json exists
    out_dir,        \* whether the directory newsletters exists
    md_file,        \* newsletters/{date}_daily_paper.md
    html_file,      \* newsletters/{date}_daily_paper.html
    papers_data,    \* generate_newsletter: papers_data
    papers,         \* generate_newsletter: papers
    template_data,  \* generate_newsletter: template_data
    newsletter_md,  \* generate_newsletter: newsletter_md
    newsletter_html,\* generate_newsletter: newsletter_html
    exc,            \* the exception raised inside the try block, if any
    log,            \* the messages handed to the logger, in order
    result,         \* what generate_newsletter returned
    exit_code       \* the exit code of the process

evars == <<paper_data, info, epc>>
tvars == <<hot_papers, hot_topics, tpc>>
fvars == <<input_file, stats_file, out_dir, md_file, html_file>>
lvars == <<args_date, date_str, papers_data, papers, template_data,
           newsletter_md, newsletter_html, exc, log, result, exit_code>>
vars == <<evars, tvars, pc, fvars, lvars>>

----------------------------------------------------------------------------
(* Characters and strings *)

NL == "\n"
SP == " "
FW == "fw"
BiaoTi == <<"biao", "ti">>
ZhaiYao == <<"zhai", "yao">>
Empty == <<>>

Max(S) == CHOOSE x \in S : \A y \in S : y <= x
Min(S) == CHOOSE x \in S : \A y \in S : x <= y

\* \s of the patterns and the characters str.strip() removes
IsSpace(c) == c \in {SP, NL}
\* [:U+FF1A] of the patterns
IsColon(c) == c \in {":", FW}

AllSpace(t, a, b) == \A i \in a..b : IsSpace(t[i])

\* the literal lit occurs in t at position i
LitAt(t, i, lit) ==
    /\ i >= 1
    /\ i + Len(lit) - 1 <= Len(t)
    /\ SubSeq(t, i, i + Len(lit) - 1) = lit

\* str.strip()
Strip(s) ==
    LET keep == {i \in 1..Len(s) : ~IsSpace(s[i])}
    IN  IF keep = {} THEN Empty ELSE SubSeq(s, Min(keep), Max(keep))

\* the longest run of whitespace (\s*, greedy) that starts at position j
WsRun(t, j) == Max({k \in 0..(Len(t) + 1 - j) : AllSpace(t, j, j + k - 1)})
\* the longest run of non-newline characters ([^\n]+, greedy) from position j
LineRun(t, j) ==
    Max({k \in 0..(Len(t) + 1 - j) : \A i \in j..(j + k - 1) : t[i] # NL})

\* dict.get(key, default)
Get(d, key, default) == IF key \in DOMAIN d THEN d[key] ELSE default

NoMatch == [matched |-> FALSE, group |-> Empty]
Match(g) == [matched |-> TRUE, group |-> g]

----------------------------------------------------------------------------
(* extract_paper_info: the three patterns *)

\* marker (two characters) followed by either colon, at position i
MarkerAt(t, i, marker) ==
    /\ LitAt(t, i, marker)
    /\ i + 2 <= Len(t)
    /\ IsColon(t[i + 2])

\* (?=\s*\n\s*<summary marker>[:U+FF1A]|\Z) at position q
TitleLookahead(t, q) ==
    \/ q = Len(t) + 1
    \/ \E n \in q..Len(t) :
          /\ t[n] = NL
          /\ AllSpace(t, q, n - 1)
          /\ \E m \in (n + 1)..Len(t) :
                AllSpace(t, n + 1, m - 1) /\ MarkerAt(t, m, ZhaiYao)

\* <title marker>[:U+FF1A]\s*([^\n]+)(?=...) tried at position i: \s* and
\* [^\n]+ are greedy, so the first success has the longest \s* and, for it,
\* the longest group
TitleMatchAt(t, i) ==
    IF ~MarkerAt(t, i, BiaoTi) THEN NoMatch
    ELSE LET j  == i + 3
             ok == {km \in (0..WsRun(t, j)) \X (1..Len(t)) :
                       /\ km[2] <= LineRun(t, j + km[1])
                       /\ TitleLookahead(t, j + km[1] + km[2])}
         IN  IF ok = {} THEN NoMatch
             ELSE LET k == Max({km[1] : km \in ok})
                      m == Max({km[2] : km \in {x \in ok : x[1] = k}})
                  IN  Match(SubSeq(t, j + k, j + k + m - 1))

\* re.search: the match at the leftmost position that has one
TitleSearch(t) ==
    LET at == {i \in 1..Len(t) : TitleMatchAt(t, i).matched}
    IN  IF at = {} THEN NoMatch ELSE TitleMatchAt(t, Min(at))

\* (?=\s*(?:\n\s*[^U+FF1A\n]+[:U+FF1A]|\Z)) at position q
SummaryLookahead(t, q) ==
    \E a \in q..(Len(t) + 1) :
       /\ AllSpace(t, q, a - 1)
       /\ \/ a = Len(t) + 1
          \/ /\ t[a] = NL
             /\ \E b \in (a + 1)..Len(t), c \in (a + 2)..Len(t) :
                   /\ b < c
                   /\ AllSpace(t, a + 1, b - 1)
                   /\ \A x \in b..(c - 1) : t[x] \notin {FW, NL}
                   /\ IsColon(t[c])

\* <summary marker>[:U+FF1A]\s*([^\n].+?)(?=...) tried at position i: \s* is
\* greedy and .+? is lazy (and matches newlines, re.DOTALL), so the first
\* success has the longest \s* and, for it, the shortest group
SummaryMatchAt(t, i) ==
    IF ~MarkerAt(t, i, ZhaiYao) THEN NoMatch
    ELSE LET j  == i + 3
             ok == {km \in (0..WsRun(t, j)) \X (1..Len(t)) :
                       /\ j + km[1] + km[2] <= Len(t)
                       /\ t[j + km[1]] # NL
                       /\ SummaryLookahead(t, j + km[1] + 1 + km[2])}
         IN  IF ok = {} THEN NoMatch
             ELSE LET k == Max({km[1] : km \in ok})
                      m == Min({km[2] : km \in {x \in ok : x[1] = k}})
                  IN  Match(SubSeq(t, j + k, j + k + m))

SummarySearch(t) ==
    LET at == {i \in 1..Len(t) : SummaryMatchAt(t, i).matched}
    IN  IF at = {} THEN NoMatch ELSE SummaryMatchAt(t, Min(at))

\* ^([^\n]+)\n\s*<summary marker>[:U+FF1A] with re.MULTILINE, tried at i
FallbackMatchAt(t, i) ==
    IF ~(i = 1 \/ t[i - 1] = NL) THEN NoMatch
    ELSE LET ok == {m \in 1..LineRun(t, i) :
                       /\ i + m <= Len(t)
                       /\ t[i + m] = NL
                       /\ \E p \in (i + m + 1)..Len(t) :
                             /\ AllSpace(t, i + m + 1, p - 1)
                             /\ MarkerAt(t, p, ZhaiYao)}
         IN  IF ok = {} THEN NoMatch
             ELSE Match(SubSeq(t, i, i + Max(ok) - 1))

\* a faulty variant: the fallback takes all the text before the first summary marker
FallbackWholePrefix(t) ==
    LET at == {i \in 2..Len(t) : MarkerAt(t, i, ZhaiYao)}
    IN  IF at = {} THEN NoMatch ELSE Match(SubSeq(t, 1, Min(at) - 1))

FallbackSearch(t) ==
    LET at == {i \in 1..Len(t) : FallbackMatchAt(t, i).matched}
    IN  IF at = {} THEN NoMatch ELSE FallbackMatchAt(t, Min(at))

\* the literal of line 222: the summary marker with the full-width colon
SummaryLiteral == ZhaiYao \o <<FW>>

\* lit in t
Contains(t, lit) == \E i \in 1..Len(t) : LitAt(t, i, lit)

\* t.split(lit, 1)[1], for a t that contains lit
AfterFirst(t, lit) ==
    LET p == Min({i \in 1..Len(t) : LitAt(t, i, lit)})
    IN  SubSeq(t, p + Len(lit), Len(t))

\* the summary of lines 219-223
SummaryOf(translation) ==
    LET summary_match == SummarySearch(translation)
        summary == Strip(IF summary_match.matched
                         THEN summary_match.group ELSE Empty)
    IN  IF summary = Empty /\ Contains(translation, SummaryLiteral)
        THEN Strip(AfterFirst(translation, SummaryLiteral))
        ELSE summary

\* the title of lines 211-218
TitleOf(translation, raw_title) ==
    LET first == TitleSearch(translation)
        title_match == IF ~first.matched
                       THEN FallbackSearch(translation) ELSE first
    IN  Strip(IF title_match.matched THEN title_match.group ELSE raw_title)

\* A JSON value carries its type; an object's members are its fields
Object(d) == [type |-> "object", fields |-> d]
NotObject == [type |-> "string", fields |-> [value |-> Empty]]
EmptyObject == Object([k \in {} |-> Empty])

\* lines 208 and 231: .get on a value that is not a dict raises
\* AttributeError
ExtractRaises(pd) ==
    \/ pd.type # "object"
    \/ Get(pd.fields, "paper", EmptyObject).type # "object"

extract_paper_info(pd) ==
    LET d == pd.fields
        translation == Get(d, "translation", Empty)
    IN  [title          |-> TitleOf(translation, Get(d, "title", Empty)),
         original_title |-> Get(d, "title", Empty),
         summary        |-> SummaryOf(translation),
         paper_url      |-> Get(d, "url", Empty),
         arxiv_url      |-> Get(d, "arxiv_url", Empty),
         code_url       |-> Get(Get(d, "paper", EmptyObject).fields,
                                "code", Empty)]

----------------------------------------------------------------------------
(* Inputs of the extractor *)

MaxLen == 6

\* the pieces translations are built from: the summary marker, the two
\* colons, the newline, another whitespace character, an ordinary character
Pieces == {ZhaiYao, <<":">>, <<FW>>, <<NL>>, <<SP>>, <<"a">>}

RECURSIVE Flatten(_)
Flatten(ps) == IF ps = <<>> THEN <<>> ELSE Head(ps) \o Flatten(Tail(ps))

TextsOver(P, n) == {Flatten(ps) : ps \in UNION {[1..k -> P] : k \in 0..n}}

RawTitle == <<"r", SP>>

NoInfo == [title |-> Empty, original_title |-> Empty, summary |-> Empty,
           paper_url |-> Empty, arxiv_url |-> Empty, code_url |-> Empty]

ExtractIdle ==
    /\ paper_data = EmptyObject
    /\ info = NoInfo
    /\ epc = "idle"

TopicsIdle ==
    /\ hot_papers = <<>>
    /\ hot_topics = Empty
    /\ tpc = "idle"

RunIdle ==
    /\ pc = "idle"
    /\ args_date = "None"
    /\ date_str = "None"
    /\ input_file = "None"
    /\ stats_file = FALSE
    /\ out_dir = FALSE
    /\ md_file = "None"
    /\ html_file = "None"
    /\ papers_data = "None"
    /\ papers = <<>>
    /\ template_data = "None"
    /\ newsletter_md = "None"
    /\ newsletter_html = "None"
    /\ exc = "None"
    /\ log = <<>>
    /\ result = "None"
    /\ exit_code = "None"

\* the translations of the extractor's specification: every text of at most
\* MaxLen pieces
ExtractInit ==
    /\ paper_data \in {Object([translation |-> t, title |-> RawTitle]) :
                          t \in TextsOver(Pieces, MaxLen)}
    /\ info = NoInfo
    /\ epc = "call"
    /\ TopicsIdle
    /\ RunIdle

\* one call of extract_paper_info
ExtractCall ==
    /\ epc = "call"
    /\ ~ExtractRaises(paper_data)
    /\ info' = extract_paper_info(paper_data)
    /\ epc' = "return"
    /\ UNCHANGED <<paper_data, tvars, pc, fvars, lvars>>

ExtractNext == ExtractCall

SpecExtract == ExtractInit /\ [][ExtractNext]_vars

\* the translations laid out as: title marker, colon, X, newline, summary
\* marker, colon, Y, with X of 1..MaxX pieces on one line and Y of 1..MaxY
\* pieces
MaxX == 2
MaxY == 2

LinePieces == {BiaoTi, ZhaiYao, <<":">>, <<FW>>, <<SP>>, <<"a">>}
TextPieces == LinePieces \cup {<<NL>>}

Layout(c1, X, c2, Y) == BiaoTi \o <<c1>> \o X \o <<NL>> \o ZhaiYao \o <<c2>> \o Y

LayoutInit ==
    /\ paper_data \in
          {Object([translation |-> Layout(c[1], X, c[2], Y), title |-> RawTitle]) :
              c \in {":", FW} \X {":", FW},
              X \in TextsOver(LinePieces, MaxX) \ {Empty},
              Y \in TextsOver(TextPieces, MaxY) \ {Empty}}
    /\ info = NoInfo
    /\ epc = "call"
    /\ TopicsIdle
    /\ RunIdle

SpecLayout == LayoutInit /\ [][ExtractNext]_vars

----------------------------------------------------------------------------
(* Claims about extract_paper_info *)

Translation == paper_data.fields.translation

\* where the summary marker, followed by either colon, occurs in t
MarkersIn(t) == {i \in 1..Len(t) : MarkerAt(t, i, ZhaiYao)}

\* the X and the Y of a laid-out translation
LayoutNL(t) == Min({i \in 1..Len(t) : t[i] = NL})
LayoutX(t) == SubSeq(t, 4, LayoutNL(t) - 1)
LayoutY(t) == SubSeq(t, LayoutNL(t) + 4, Len(t))

\* a line after the first that reads: whitespace, a label, a colon
HasLabelLine(y) ==
    \E n \in 1..Len(y), b \in 1..Len(y), c \in 1..Len(y) :
       /\ n < b /\ b < c
       /\ y[n] = NL
       /\ AllSpace(y, n + 1, b - 1)
       /\ \A x \in b..(c - 1) : y[x] \notin {FW, NL}
       /\ IsColon(y[c])

\* C6 (as stated): for every translation laid out as title marker, colon, X,
\* newline, summary marker, colon, Y, where X is a line with text in it that
\* holds no summary marker and Y is non-empty text with no further label
\* line, extract_paper_info returns title X trimmed and summary Y trimmed.
C6_LayoutIsExtracted ==
    epc = "return" =>
        LET X == LayoutX(Translation)
            Y == LayoutY(Translation)
        IN  (Strip(X) # Empty /\ MarkersIn(X) = {} /\ ~HasLabelLine(Y))
                => (info.title = Strip(X) /\ info.summary = Strip(Y))

\* the summary the pattern of line 212 alone yields
PatternSummary(t) ==
    LET m == SummarySearch(t)
    IN  Strip(IF m.matched THEN m.group ELSE Empty)

\* C8 (as stated): whenever the summary pattern yields no summary but the
\* summary marker with either colon occurs in the translation, the summary
\* returned is the trimmed text after the first occurrence of the marker.
C8_SummaryAfterEitherMarker ==
    epc = "return" =>
        LET t == Translation
        IN  (PatternSummary(t) = Empty /\ MarkersIn(t) # {})
                => info.summary = Strip(SubSeq(t, Min(MarkersIn(t)) + 3, Len(t)))

\* C9 (as stated): for every translation without the title marker, the title
\* is the trimmed text that precedes the first summary marker, wherever that
\* text stands; the raw title is returned only when no text precedes the
\* marker or there is no marker.
C9_TitleIsTextBeforeMarker ==
    epc = "return" =>
        LET t == Translation
            before == IF MarkersIn(t) = {} THEN Empty
                      ELSE Strip(SubSeq(t, 1, Min(MarkersIn(t)) - 1))
        IN  ~Contains(t, BiaoTi)
                => info.title = IF before # Empty THEN before
                                ELSE Strip(RawTitle)

\* the non-empty lines <<first, newline>> of t whose newline is followed by
\* nothing but whitespace and then the summary marker with a colon
LinesBeforeMarker(t) ==
    {l \in (1..Len(t)) \X (1..Len(t)) :
        /\ l[1] < l[2]
        /\ l[1] = 1 \/ t[l[1] - 1] = NL
        /\ \A x \in l[1]..(l[2] - 1) : t[x] # NL
        /\ t[l[2]] = NL
        /\ \E p \in MarkersIn(t) : l[2] < p /\ AllSpace(t, l[2] + 1, p - 1)}

\* C9 (amended): for every translation without the title marker, the title
\* is the trimmed content of the first non-empty line that is followed, after
\* its newline and whitespace only, by the summary marker and a colon; text
\* on the marker's own line and on earlier lines is left out, and the trimmed
\* raw title is returned when there is no such line.
C9_TitleIsLineBeforeMarker ==
    epc = "return" =>
        LET t == Translation
            ls == LinesBeforeMarker(t)
        IN  ~Contains(t, BiaoTi)
                => info.title =
                      IF ls = {} THEN Strip(RawTitle)
                      ELSE LET l == CHOOSE x \in ls : \A y \in ls : x[1] <= y[1]
                           IN  Strip(SubSeq(t, l[1], l[2] - 1))

\* C9 witness: a returned title that is the line before the marker while
\* the text before the marker spans several lines
C9_Witness ==
    /\ epc = "return"
    /\ ~Contains(Translation, BiaoTi)
    /\ LinesBeforeMarker(Translation) # {}
    /\ info.title # Strip(RawTitle)
    /\ info.title # Strip(SubSeq(Translation, 1, Min(MarkersIn(Translation)) - 1))

----------------------------------------------------------------------------
(* get_hot_topics *)

Uppers == <<"A", "B", "C", "D", "E", "F", "G", "H", "I", "J", "K", "L", "M",
            "N", "O", "P", "Q", "R", "S", "T", "U", "V", "W", "X", "Y", "Z">>
Lowers == <<"a", "b", "c", "d", "e", "f", "g", "h", "i", "j", "k", "l", "m",
            "n", "o", "p", "q", "r", "s", "t", "u", "v", "w", "x", "y", "z">>

\* str.lower()
LowerChar(c) ==
    IF \E i \in 1..Len(Uppers) : Uppers[i] = c
    THEN Lowers[CHOOSE i \in 1..Len(Uppers) : Uppers[i] = c]
    ELSE c
Lower(s) == [i \in 1..Len(s) |-> LowerChar(s[i])]

LLM == <<"L", "L", "M">>
Vision == <<"V", "i", "s", "i", "o", "n">>
Audio == <<"A", "u", "d", "i", "o">>
MultiModal == <<"M", "u", "l", "t", "i", "M", "o", "d", "a", "l">>
NLP == <<"N", "L", "P">>
RL == <<"R", "L">>
Transformer == <<"T", "r", "a", "n", "s", "f", "o", "r", "m", "e", "r">>
GPT == <<"G", "P", "T">>
AIGC == <<"A", "I", "G", "C">>
Diffusion == <<"D", "i", "f", "f", "u", "s", "i", "o", "n">>

keywords == <<LLM, Vision, Audio, MultiModal, NLP, RL, Transformer, GPT,
              AIGC, Diffusion>>

\* the label returned when no keyword matches: U+7EFC U+5408 U+9886 U+57DF
DefaultTopics == <<"zong", "he", "ling", "yu">>

Range(s) == {s[i] : i \in 1..Len(s)}

\* title + ' ' + summary, both lowered (lines 240-242)
Content(paper) ==
    Lower(Get(paper, "title", Empty)) \o <<SP>> \o Lower(Get(paper, "summary", Empty))

\* ', '.join(topics)
RECURSIVE Join(_)
Join(topics) ==
    IF Len(topics) = 0 THEN Empty
    ELSE IF Len(topics) = 1 THEN topics[1]
    ELSE topics[1] \o <<",", SP>> \o Join(Tail(topics))

\* the inner loop of lines 243-245, from keyword k on
RECURSIVE ScanKeywords(_, _, _)
ScanKeywords(content, topics, k) ==
    IF k > Len(keywords) THEN topics
    ELSE ScanKeywords(content,
                      IF /\ Contains(content, Lower(keywords[k]))
                         /\ keywords[k] \notin Range(topics)
                      THEN Append(topics, keywords[k]) ELSE topics,
                      k + 1)

\* the outer loop of lines 239-245, from paper i on
RECURSIVE ScanPapers(_, _, _)
ScanPapers(ps, topics, i) ==
    IF i > Len(ps) THEN topics
    ELSE ScanPapers(ps, ScanKeywords(Content(ps[i]), topics, 1), i + 1)

\* a faulty variant: the loops the other way round: keywords outside, papers inside
TopicsInKeywordOrder(ps) ==
    LET hit == SelectSeq(keywords,
                   LAMBDA kw : \E i \in 1..Len(ps) :
                                  Contains(Content(ps[i]), Lower(kw)))
    IN  IF hit = <<>> THEN DefaultTopics ELSE Join(hit)

get_hot_topics(ps) ==
    LET topics == ScanPapers(ps, <<>>, 1)
    IN  IF topics = <<>> THEN DefaultTopics ELSE Join(topics)

MaxPapers == 3

SampleTitles == {Vision, Lower(LLM), <<"W", "o", "r", "l", "d">>, <<"x">>}
SampleSummaries == {Empty, GPT \o <<SP, "o", "r", SP>> \o LLM}
SamplePapers == {[title |-> t, summary |-> s] :
                    t \in SampleTitles, s \in SampleSummaries}

TopicsInit ==
    /\ hot_papers \in UNION {[1..n -> SamplePapers] : n \in 0..MaxPapers}
    /\ hot_topics = Empty
    /\ tpc = "call"
    /\ ExtractIdle
    /\ RunIdle

\* one call of get_hot_topics
TopicsCall ==
    /\ tpc = "call"
    /\ hot_topics' = get_hot_topics(hot_papers)
    /\ tpc' = "return"
    /\ UNCHANGED <<hot_papers, evars, pc, fvars, lvars>>

TopicsNext == TopicsCall

SpecTopics == TopicsInit /\ [][TopicsNext]_vars

\* keyword number k occurs in paper number i
Seen(ps, k, i) == Contains(Content(ps[i]), Lower(keywords[k]))
\* for each keyword, the papers it occurs in
SeenIn(ps) ==
    [k \in 1..Len(keywords) |-> {i \in 1..Len(ps) : Seen(ps, k, i)}]
\* the matched keywords, ordered by the first paper they occur in and, within
\* one paper, by their place in the keyword list
FirstSeenOrder(ps) ==
    LET seen    == SeenIn(ps)
        matched == {k \in DOMAIN seen : seen[k] # {}}
        first   == [k \in matched |-> Min(seen[k])]
        before  == [k \in matched |->
                       {a \in matched : \/ first[a] < first[k]
                                        \/ first[a] = first[k] /\ a < k}]
    IN  [n \in 1..Cardinality(matched) |->
            keywords[CHOOSE k \in matched : Cardinality(before[k]) = n - 1]]

OnlyKeyword(ps, i, k) == \A a \in 1..Len(keywords) : Seen(ps, a, i) <=> a = k

\* C7: get_hot_topics returns the matched keywords, each once, in the order
\* in which they are first met while the papers are scanned in sequence; with
\* paper 1 holding only Vision (keyword 2) and paper 2 only LLM (keyword 1)
\* the result is "Vision, LLM".
C7_FirstSeenOrder ==
    tpc = "return" =>
        /\ LET order == FirstSeenOrder(hot_papers)
           IN  order # <<>> => hot_topics = Join(order)
        /\ (/\ Len(hot_papers) = 2
            /\ OnlyKeyword(hot_papers, 1, 2)
            /\ OnlyKeyword(hot_papers, 2, 1))
              => hot_topics = Vision \o <<",", SP>> \o LLM

\* C7 witness: the call returned "Vision, LLM" for two papers, the first
\* holding only Vision and the second only LLM
C7_Witness ==
    /\ tpc = "return"
    /\ Len(hot_papers) = 2
    /\ OnlyKeyword(hot_papers, 1, 2)
    /\ OnlyKeyword(hot_papers, 2, 1)
    /\ hot_topics = Vision \o <<",", SP>> \o LLM

----------------------------------------------------------------------------
(* generate_newsletter and __main__ *)

MaxRecords == 2

\* datetime.now().strftime('%Y-%m-%d') and a date given with --date
Today == "2024-05-02"
GivenDates == {"2024-05-01"}

\* records of the input array: a record with the title and summary layout
\* and a code link, a record without translation, a record whose nested
\* paper field is not an object, a record that is not an object
RecLaidOut ==
    Object([title       |-> <<"o">>,
            url         |-> <<"u">>,
            arxiv_url   |-> <<"x">>,
            translation |-> BiaoTi \o <<":", SP>> \o GPT \o <<NL>>
                            \o ZhaiYao \o <<FW>> \o <<"a", "b">>,
            paper       |-> Object([code |-> <<"g">>])])
RecPlain ==
    Object([title |-> Vision, url |-> <<"u">>, arxiv_url |-> <<"x">>])
RecBadPaper ==
    Object([title |-> <<"o">>, translation |-> <<"a">>, paper |-> NotObject])
SampleRecords == {RecLaidOut, RecPlain, RecBadPaper, NotObject}

\* the top-level JSON value of the input file
Array(items) == [type |-> "array", items |-> items]
NotArray == [type |-> "object", items |-> <<>>]
NoJson == [type |-> "none", items |-> <<>>]

InputFiles ==
    {[state |-> st, json |-> NoJson] : st \in {"missing", "unreadable", "malformed"}}
    \cup {[state |-> "json", json |-> NotArray]}
    \cup {[state |-> "json", json |-> Array(items)] :
             items \in UNION {[1..n -> SampleRecords] : n \in 0..MaxRecords}}

\* an output file: absent, left by an earlier run, truncated by a write that
\* failed, or written
NoDoc == [none |-> TRUE]
File(st, data) == [state |-> st, data |-> data]

\* the exceptions that derive from Exception, which line 334 catches
Exception == {"OSError", "JSONDecodeError", "AttributeError", "TemplateError"}

\* a faulty variant: the except clause catches I/O errors only
CatchesOSErrorOnly(e) == e = "OSError"

\* line 334: except Exception
Catches(e) == e \in Exception

\* lines 334-336, reached from a step of the try block that raises e
Raise(e) ==
    /\ exc' = e
    /\ IF Catches(e)
       THEN /\ log' = Append(log, "error: exception")
            /\ result' = "False"
            /\ pc' = "returned"
       ELSE /\ pc' = "propagated"
            /\ UNCHANGED <<log, result>>

\* a faulty variant: only the papers with a summary are kept
ExtractWithSummary(items) ==
    SelectSeq([i \in 1..Len(items) |-> extract_paper_info(items[i])],
              LAMBDA q : q.summary # Empty)

\* line 280: the list comprehension
ExtractAll(items) == [i \in 1..Len(items) |-> extract_paper_info(items[i])]

\* lines 289-308
TemplateData(date, ps, stats) ==
    [date           |-> date,
     total_papers   |-> Len(ps),
     hot_topics     |-> get_hot_topics(ps),
     papers         |-> ps,
     wordcloud_path |-> IF stats THEN "images/keywords_wordcloud.png" ELSE "None",
     trend_path     |-> IF stats THEN "images/daily_papers.png" ELSE "None",
     audio_path     |-> <<"audio/", date, "_daily_papers.mp3">>]

\* lines 14-51 rendered with td (lines 311-312): the heading, the statistics,
\* one section per paper, the two image links the template spells out, the
\* audio link
Render(td) ==
    [heading      |-> td.date,
     total_papers |-> td.total_papers,
     hot_topics   |-> td.hot_topics,
     sections     |-> [i \in 1..Len(td.papers) |->
                         [index          |-> i,
                          title          |-> td.papers[i].title,
                          original_title |-> td.papers[i].original_title,
                          summary        |-> td.papers[i].summary,
                          paper_url      |-> td.papers[i].paper_url,
                          arxiv_url      |-> td.papers[i].arxiv_url,
                          code_link      |-> td.papers[i].code_url # Empty,
                          code_url       |-> td.papers[i].code_url]],
     images       |-> <<"../images/keywords_wordcloud.png",
                        "../images/daily_papers.png">>,
     audio        |-> <<"../">> \o td.audio_path]

\* lines 248-257: the converted Markdown inside the page shell, the date in
\* the page title
generate_html(markdown_content, date) ==
    [title   |-> <<"Hugging Face - ", date>>,
     content |-> [html_of |-> markdown_content]]

\* a faulty variant: every unsuccessful run exits with 0 as well
ExitCodeAlwaysZero(success) == 0

\* lines 347-349
ExitCode(success) == IF success # "True" THEN 1 ELSE 0

RunInit ==
    /\ pc = "main"
    /\ args_date \in {"None"} \cup GivenDates
    /\ date_str = "None"
    /\ input_file \in InputFiles
    /\ stats_file \in BOOLEAN
    /\ out_dir \in BOOLEAN
    /\ md_file \in IF out_dir
                    THEN {File("absent", NoDoc), File("old", NoDoc)}
                    ELSE {File("absent", NoDoc)}
    /\ html_file \in IF out_dir
                      THEN {File("absent", NoDoc), File("old", NoDoc)}
                      ELSE {File("absent", NoDoc)}
    /\ papers_data = NoJson
    /\ papers = <<>>
    /\ template_data = NoDoc
    /\ newsletter_md = NoDoc
    /\ newsletter_html = NoDoc
    /\ exc = "None"
    /\ log = <<>>
    /\ result = "None"
    /\ exit_code = "None"
    /\ ExtractIdle
    /\ TopicsIdle

\* lines 338-346 and 259-262: the call, and the default of date_str
Start ==
    /\ pc = "main"
    /\ date_str' = IF args_date = "None" THEN Today ELSE args_date
    /\ pc' = "check_input"
    /\ UNCHANGED <<evars, tvars, fvars, args_date, papers_data, papers,
                   template_data, newsletter_md, newsletter_html, exc, log,
                   result, exit_code>>

\* a faulty variant: the output directory is made before the input is looked at
CheckInputMakingDir ==
    /\ pc = "check_input"
    /\ out_dir' = TRUE
    /\ IF input_file.state = "missing"
       THEN /\ log' = Append(log, "error: no data file")
            /\ result' = "False"
            /\ pc' = "returned"
       ELSE /\ pc' = "load"
            /\ UNCHANGED <<log, result>>
    /\ UNCHANGED <<evars, tvars, input_file, stats_file, md_file, html_file,
                   args_date, date_str, papers_data, papers, template_data,
                   newsletter_md, newsletter_html, exc, exit_code>>

\* lines 266-269
CheckInput ==
    /\ pc = "check_input"
    /\ IF input_file.state = "missing"
       THEN /\ log' = Append(log, "error: no data file")
            /\ result' = "False"
            /\ pc' = "returned"
       ELSE /\ pc' = "load"
            /\ UNCHANGED <<log, result>>
    /\ UNCHANGED <<evars, tvars, fvars, args_date, date_str, papers_data,
                   papers, template_data, newsletter_md, newsletter_html,
                   exc, exit_code>>

\* lines 271-272
LoadJson ==
    /\ pc = "load"
    /\ IF input_file.state = "json"
       THEN /\ papers_data' = input_file.json
            /\ pc' = "check_data"
            /\ UNCHANGED <<exc, log, result>>
       ELSE /\ Raise(IF input_file.state = "malformed"
                     THEN "JSONDecodeError" ELSE "OSError")
            /\ UNCHANGED papers_data
    /\ UNCHANGED <<evars, tvars, fvars, args_date, date_str, papers,
                   template_data, newsletter_md, newsletter_html, exit_code>>

\* lines 275-277
CheckData ==
    /\ pc = "check_data"
    /\ IF papers_data.type # "array" \/ Len(papers_data.items) = 0
       THEN /\ log' = Append(log, "info: no papers, skipped")
            /\ result' = "False"
            /\ pc' = "returned"
       ELSE /\ pc' = "extract"
            /\ UNCHANGED <<log, result>>
    /\ UNCHANGED <<evars, tvars, fvars, args_date, date_str, papers_data,
                   papers, template_data, newsletter_md, newsletter_html,
                   exc, exit_code>>

\* lines 280-283
ExtractPapers ==
    /\ pc = "extract"
    /\ IF \E i \in 1..Len(papers_data.items) : ExtractRaises(papers_data.items[i])
       THEN /\ Raise("AttributeError")
            /\ UNCHANGED papers
       ELSE /\ papers' = ExtractAll(papers_data.items)
            /\ IF Len(papers') = 0
               THEN /\ log' = Append(log, "warning: nothing extracted")
                    /\ result' = "False"
                    /\ pc' = "returned"
               ELSE /\ pc' = "stats"
                    /\ UNCHANGED <<log, result>>
            /\ UNCHANGED exc
    /\ UNCHANGED <<evars, tvars, fvars, args_date, date_str, papers_data,
                   template_data, newsletter_md, newsletter_html, exit_code>>

\* lines 286-308
BuildTemplateData ==
    /\ pc = "stats"
    /\ template_data' = TemplateData(date_str, papers, stats_file)
    /\ log' = IF stats_file THEN log
              ELSE Append(log, "warning: no stats file")
    /\ pc' = "render"
    /\ UNCHANGED <<evars, tvars, fvars, args_date, date_str, papers_data,
                   papers, newsletter_md, newsletter_html, exc, result,
                   exit_code>>

\* lines 311-312
RenderMarkdown ==
    /\ pc = "render"
    /\ newsletter_md' = Render(template_data)
    /\ pc' = "html"
    /\ UNCHANGED <<evars, tvars, fvars, args_date, date_str, papers_data,
                   papers, template_data, newsletter_html, exc, log, result,
                   exit_code>>

\* line 315
GenerateHtml ==
    /\ pc = "html"
    /\ newsletter_html' = generate_html(newsletter_md, date_str)
    /\ pc' = "makedirs"
    /\ UNCHANGED <<evars, tvars, fvars, args_date, date_str, papers_data,
                   papers, template_data, newsletter_md, exc, log, result,
                   exit_code>>

\* lines 311-315: the template or the Markdown conversion raises
RenderRaises ==
    /\ pc \in {"render", "html"}
    /\ Raise("TemplateError")
    /\ UNCHANGED <<evars, tvars, fvars, args_date, date_str, papers_data,
                   papers, template_data, newsletter_md, newsletter_html,
                   exit_code>>

\* lines 318-319
MakeDirs ==
    /\ pc = "makedirs"
    /\ out_dir' = TRUE
    /\ pc' = "write_md"
    /\ UNCHANGED <<evars, tvars, input_file, stats_file, md_file, html_file,
                   lvars>>

\* line 319: os.makedirs raises
MakeDirsRaises ==
    /\ pc = "makedirs"
    /\ ~out_dir
    /\ Raise("OSError")
    /\ UNCHANGED <<evars, tvars, fvars, args_date, date_str, papers_data,
                   papers, template_data, newsletter_md, newsletter_html,
                   exit_code>>

\* lines 322-324
WriteMarkdown ==
    /\ pc = "write_md"
    /\ md_file' = File("written", newsletter_md)
    /\ pc' = "write_html"
    /\ UNCHANGED <<evars, tvars, input_file, stats_file, out_dir, html_file,
                   lvars>>

\* lines 323-324: open raises and the file is as it was, or write raises and
\* the file is truncated
WriteMarkdownRaises ==
    /\ pc = "write_md"
    /\ md_file' \in {md_file, File("partial", NoDoc)}
    /\ Raise("OSError")
    /\ UNCHANGED <<evars, tvars, input_file, stats_file, out_dir, html_file,
                   args_date, date_str, papers_data, papers, template_data,
                   newsletter_md, newsletter_html, exit_code>>

\* lines 327-329
WriteHtml ==
    /\ pc = "write_html"
    /\ html_file' = File("written", newsletter_html)
    /\ pc' = "log_done"
    /\ UNCHANGED <<evars, tvars, input_file, stats_file, out_dir, md_file,
                   lvars>>

\* a faulty variant: a failure of the HTML write is passed over
WriteHtmlFailureIgnored ==
    /\ pc = "write_html"
    /\ html_file' \in {html_file, File("partial", NoDoc)}
    /\ pc' = "log_done"
    /\ UNCHANGED <<evars, tvars, input_file, stats_file, out_dir, md_file,
                   lvars>>

\* lines 328-329: open raises and the file is as it was, or write raises and
\* the file is truncated
WriteHtmlRaises ==
    /\ pc = "write_html"
    /\ html_file' \in {html_file, File("partial", NoDoc)}
    /\ Raise("OSError")
    /\ UNCHANGED <<evars, tvars, input_file, stats_file, out_dir, md_file,
                   args_date, date_str, papers_data, papers, template_data,
                   newsletter_md, newsletter_html, exit_code>>

\* lines 331-332
ReturnTrue ==
    /\ pc = "log_done"
    /\ log' = Append(log, "info: generated")
    /\ result' = "True"
    /\ pc' = "returned"
    /\ UNCHANGED <<evars, tvars, fvars, args_date, date_str, papers_data,
                   papers, template_data, newsletter_md, newsletter_html,
                   exc, exit_code>>

\* lines 346-349
Exit ==
    /\ pc = "returned"
    /\ exit_code' = ExitCode(result)
    /\ pc' = "exited"
    /\ UNCHANGED <<evars, tvars, fvars, args_date, date_str, papers_data,
                   papers, template_data, newsletter_md, newsletter_html,
                   exc, log, result>>

Next ==
    \/ Start
    \/ CheckInput
    \/ LoadJson
    \/ CheckData
    \/ ExtractPapers
    \/ BuildTemplateData
    \/ RenderMarkdown
    \/ GenerateHtml
    \/ RenderRaises
    \/ MakeDirs
    \/ MakeDirsRaises
    \/ WriteMarkdown
    \/ WriteMarkdownRaises
    \/ WriteHtml
    \/ WriteHtmlRaises
    \/ ReturnTrue
    \/ Exit

Spec == RunInit /\ [][Next]_vars

----------------------------------------------------------------------------
(* Claims about generate_newsletter and the exit code *)

\* the run is over: generate_newsletter returned, or an exception left it
RunEnded == pc \in {"returned", "exited", "propagated"}

\* this run opened the file for writing / wrote doc to it in full
Touched(f) == f.state \in {"partial", "written"}
Written(f, doc) == f.state = "written" /\ f.data = doc

\* C1 (as stated): when a run ends it has written both output files or
\* neither, whatever its outcome; it never ends having written one of them.
C1_ZeroOrTwoFiles ==
    RunEnded =>
        (Written(md_file, newsletter_md) <=> Written(html_file, newsletter_html))

\* C1 (amended): a run that returns success has written both files in full;
\* a run that ends otherwise has written no file, or the Markdown file alone
\* (in full or in part), or the Markdown file in full and the HTML file in
\* part: the HTML file is touched only once the Markdown file is written in
\* full, and is never written in full by a run that fails.
C1_MarkdownBeforeHtml ==
    RunEnded =>
        /\ result = "True" => /\ Written(md_file, newsletter_md)
                              /\ Written(html_file, newsletter_html)
        /\ Touched(html_file) => Written(md_file, newsletter_md)
        /\ html_file.state = "written" => result = "True"

\* C1 witness: a run that ended in failure with the Markdown file written
\* and the HTML file untouched
C1_Witness ==
    /\ RunEnded
    /\ result = "False"
    /\ Written(md_file, newsletter_md)
    /\ ~Touched(html_file)

\* the input file is missing, or holds an empty list or no list
BadInput ==
    \/ input_file.state = "missing"
    \/ /\ input_file.state = "json"
       /\ input_file.json.type # "array" \/ Len(input_file.json.items) = 0

\* C2: with the input file missing, or holding an empty list or no list,
\* generate_newsletter returns failure, and no step of the run creates or
\* overwrites the Markdown file or the HTML file or creates the output
\* directory.
C2_BadInputLeavesOutputAlone ==
    /\ [](BadInput /\ RunEnded => result = "False")
    /\ [][BadInput => UNCHANGED <<out_dir, md_file, html_file>>]_vars

\* C2 witness: a run on an empty list has ended, with no output directory
C2_Witness ==
    /\ pc = "exited"
    /\ input_file.state = "json"
    /\ input_file.json = Array(<<>>)
    /\ result = "False"
    /\ ~out_dir

\* C3: no exception leaves generate_newsletter: a run ends by returning True
\* or False, and returns False whenever a step raised.
C3_NoExceptionPropagates ==
    /\ pc # "propagated"
    /\ RunEnded => result \in {"True", "False"}
    /\ RunEnded /\ exc # "None" => result = "False"

\* C3 witness: a record that is not an object made the extraction raise, and
\* the run returned False
C3_Witness ==
    /\ pc = "returned"
    /\ exc = "AttributeError"
    /\ result = "False"

ImageLinks == {"../images/keywords_wordcloud.png", "../images/daily_papers.png"}

\* C4 (as stated): in a successful run the written Markdown holds both image
\* links when the stats file is present and neither when it is absent.
C4_StatsFileDecidesImages ==
    (pc \in {"returned", "exited"} /\ result = "True") =>
        IF stats_file
        THEN ImageLinks \subseteq Range(md_file.data.images)
        ELSE ImageLinks \cap Range(md_file.data.images) = {}

\* C5: the exit code is 0 exactly when generate_newsletter returned success,
\* with both files written, and 1 for every other outcome, a skip and a
\* failure alike.
C5_ExitCode ==
    pc = "exited" =>
        /\ exit_code \in {0, 1}
        /\ exit_code = 0 <=> result = "True"
        /\ exit_code = 0 => /\ Written(md_file, newsletter_md)
                            /\ Written(html_file, newsletter_html)

\* C5 witness: the process exited with 1 after a skip
C5_Witness ==
    /\ pc = "exited"
    /\ exit_code = 1
    /\ log = <<"info: no papers, skipped">>

\* the steps at which papers holds the extracted sequence
ExtractedSteps == {"stats", "render", "html", "makedirs", "write_md",
                   "write_html", "log_done"}

\* C10: in a run that passes the non-empty-list check the extracted sequence
\* has one entry per input record, in input order, total_papers is the number
\* of input records, and the run never takes the branch that reports that
\* nothing was extracted.
C10_OneEntryPerRecord ==
    /\ "warning: nothing extracted" \notin Range(log)
    /\ pc \in ExtractedSteps =>
          /\ Len(papers) = Len(papers_data.items)
          /\ \A i \in 1..Len(papers) :
                papers[i].original_title
                    = Get(papers_data.items[i].fields, "title", Empty)
    /\ pc \in (ExtractedSteps \ {"stats"}) =>
          template_data.total_papers = Len(input_file.json.items)

\* C10 witness: the template data of a run on two different records is built
C10_Witness ==
    /\ pc = "render"
    /\ papers_data.items = <<RecPlain, RecLaidOut>>
    /\ template_data.total_papers = 2
    /\ papers[1].original_title = Vision

====
